---- MODULE Spec2Model ----
(***************************************************************************)
(* Menupedia REST backend (src/server.js): the meal lifecycle of the two   *)
(* server variants the file holds, the document-collection variant         *)
(* (lines 1-282, mongoose) and the flat-file variant (lines 284-524,       *)
(* data.json), together with the uploads directory both share.             *)
(*                                                                         *)
(* A request is first received (for POST and PUT the multer middleware     *)
(* stores the uploaded image on disk before the handler is called) and is  *)
(* handled later; other requests may be handled in between.  The flat-file *)
(* handlers are synchronous functions (readFileSync, writeFileSync, no     *)
(* await), so each one runs to completion as a single step.  The           *)
(* document-collection handlers are taken as one step each: what is        *)
(* checked of them is checked of sequences of requests.                    *)
(*                                                                         *)
(* Not modelled: headings, the multer file filter and size limit (every    *)
(* upload here is an accepted image), malformed JSON bodies, malformed     *)
(* ObjectIds, and fs errors of existsSync/unlinkSync.  The uploads         *)
(* directory multer writes to ('uploads/') and the one the handlers delete *)
(* from (path.join(__dirname, photo)) are taken to be the same directory.  *)
(***************************************************************************)
EXTENDS Integers, Sequences, FiniteSets, TLC

VARIABLES backend, coll, nextId, dataFile, assets, nextFile, pending, issued,
          faults, last

vars == <<backend, coll, nextId, dataFile, assets, nextFile, pending, issued,
          faults, last>>

\* Requests received in one behaviour.
MaxRequests == 2
\* Reads and writes of the store that fail in one behaviour.
MaxFaults == 1

(***************************************************************************)
(* Values                                                                  *)
(***************************************************************************)

\* photo = '' (no photo)
NoPhoto == <<>>

\* photo = `/uploads/${req.file.filename}`
UploadRef(f) == <<"uploads", f>>

\* path.join(__dirname, photo): the file of the uploads directory the photo
\* names, 0 when it names none.
PhotoFile(photo) ==
    IF Len(photo) = 2 /\ photo[1] = "uploads" THEN photo[2] ELSE 0

\* The `meal` part of a multipart body, JSON.parse(req.body.meal): the fields
\* the client chose to send.
Bodies ==
    { [name |-> "Soup", description |-> "Tomato", halfServe |-> TRUE],
      [name |-> "Stew", photo |-> UploadRef(9)],
      [name |-> "", description |-> "Plain"] }

\* A request without a meal part (DELETE).
NoBody == [name |-> ""]

\* Meals an earlier run of the server has stored, each with its image in the
\* uploads directory.
SeedMeals ==
    << [name |-> "Salad", description |-> "Green", halfServe |-> FALSE,
        photo |-> UploadRef(1)],
       [name |-> "Pie", description |-> "Apple", photo |-> UploadRef(2)] >>

\* The fields of a meal other than photo.
OtherFields == {"name", "description", "halfServe"}

\* !meal[field]: the field is missing or is the empty string.
Falsy(meal, field) == field \notin DOMAIN meal \/ meal[field] = ""

\* validateMeal(meal) returns true; otherwise it throws.
validateMeal(meal) == ~Falsy(meal, "name") /\ ~Falsy(meal, "description")

\* Ids a request may name: array positions (flat file, parseInt(req.params.id))
\* or document ids (collection).
RequestIds == 0 .. Len(SeedMeals)

\* The routes behind upload.single('photo'): POST /api/meals and
\* PUT /api/meals/:id.
UploadOps == {"create", "update"}

\* The response to a handled request, with what the handler found when it
\* started: `before` the stored meals, `assetsBefore` the uploads directory,
\* `data` what the handler read, `ioFailed` whether a read or a write of the
\* store failed while it ran.
Response(op, r, status, before, assetsBefore, data, ioFailed) ==
    [op |-> op, id |-> r.id, body |-> r.body, file |-> r.file, snap |-> r.snap,
     status |-> status, before |-> before, assetsBefore |-> assetsBefore,
     data |-> data, ioFailed |-> ioFailed]

NoRequest == [id |-> 0, body |-> NoBody, file |-> 0, snap |-> <<>>]

(***************************************************************************)
(* Helpers of the handlers                                                 *)
(***************************************************************************)

\* RemoveAsset with the unlink forgotten: the file stays (checks C3).
RemoveAssetKeepsFile(photo, files) == files

\* if (photo) { if (fs.existsSync(p)) fs.unlinkSync(p) }
RemoveAsset(photo, files) ==
    IF photo # NoPhoto /\ PhotoFile(photo) \in files
    THEN files \ {PhotoFile(photo)}
    ELSE files

\* mealData.photo = req.file ? `/uploads/${req.file.filename}` : ''
PostPhoto(file) == IF file # 0 THEN UploadRef(file) ELSE NoPhoto

\* PutPhoto taking the photo of the supplied fields when there is no upload
\* (checks C5).
PutPhotoFromBody(file, body, existing) ==
    IF file # 0 THEN UploadRef(file)
    ELSE IF "photo" \in DOMAIN body THEN body.photo ELSE existing.photo

\* updatedMeal.photo = req.file ? `/uploads/${req.file.filename}` : existing.photo
PutPhoto(file, body, existing) ==
    IF file # 0 THEN UploadRef(file) ELSE existing.photo

\* obj.photo = photo
WithPhoto(body, photo) == ("photo" :> photo) @@ body

\* readData answering from the document the previous handler read instead of
\* reading the file again (checks C9).
readDataCached(readFails) == IF readFails THEN <<>> ELSE last.data

\* readData(): the parsed document, or { meals: [] } when the read throws.
readData(readFails) == IF readFails THEN <<>> ELSE dataFile

\* The document on disk after readData(): its catch branch calls
\* writeData(initialData), which may fail in turn.
AfterRead(readFails, resetFails) ==
    IF readFails /\ ~resetFails THEN <<>> ELSE dataFile

\* InRange refusing the last position (checks C10).
InRangeButLast(mealIndex, meals) ==
    mealIndex >= 0 /\ mealIndex < Len(meals) - 1

\* mealIndex >= 0 && mealIndex < data.meals.length
InRange(mealIndex, meals) == mealIndex >= 0 /\ mealIndex < Len(meals)

\* Splice dropping the last meal whatever the position (checks C4).
SpliceLast(meals, mealIndex) == SubSeq(meals, 1, Len(meals) - 1)

\* data.meals.splice(mealIndex, 1)
Splice(meals, mealIndex) ==
    [j \in 1 .. (Len(meals) - 1) |->
        IF j <= mealIndex THEN meals[j] ELSE meals[j + 1]]

\* meal.set(updatedMealData): the supplied paths are set, the others kept.
MealSet(meal, updatedMealData) == updatedMealData @@ meal

\* Meal.findById(mealId): the document, or null.
Found(mealId) == mealId \in DOMAIN coll

\* coll without the document mealId.
Without(docs, mealId) == [i \in DOMAIN docs \ {mealId} |-> docs[i]]

(***************************************************************************)
(* Initial state: an empty store and an empty uploads directory, under one *)
(* of the two variants.                                                    *)
(***************************************************************************)
Init ==
    /\ backend \in {"collection", "file"}
    /\ \E seed \in {<<>>, SeedMeals} :
          /\ coll = IF backend = "collection" THEN seed ELSE <<>>
          /\ dataFile = IF backend = "file" THEN seed ELSE <<>>
          /\ nextId = Len(seed) + 1
          /\ assets = {PhotoFile(seed[i].photo) : i \in 1 .. Len(seed)}
          /\ nextFile = Len(seed) + 1
    /\ pending = {}
    /\ faults = 0
    /\ issued = 0
    /\ last = Response("none", NoRequest, 0, <<>>, {}, <<>>, FALSE)

(***************************************************************************)
(* A request is received.  upload.single('photo') has stored the image     *)
(* under a fresh name before the handler is called.  `snap` is the         *)
(* document as it was when the request was sent: the listing from which    *)
(* the client took the position it names.  Requests in flight form a set:  *)
(* two requests equal in every part count once.                            *)
(***************************************************************************)
ReceiveUpload(op, id, body, upload) ==
    /\ issued < MaxRequests
    /\ op = "create" => id = 0
    /\ LET file == IF upload THEN nextFile ELSE 0
           r == [op |-> op, id |-> id, body |-> body, file |-> file,
                 snap |-> IF backend = "file" THEN dataFile ELSE <<>>]
       IN /\ pending' = pending \cup {r}
          /\ assets' = IF upload THEN assets \cup {nextFile} ELSE assets
          /\ nextFile' = IF upload THEN nextFile + 1 ELSE nextFile
    /\ issued' = issued + 1
    /\ UNCHANGED <<backend, coll, nextId, dataFile, faults, last>>

\* A DELETE request is on its way to its handler.
ReceiveDelete(id) ==
    /\ issued < MaxRequests
    /\ pending' = pending \cup
          {[op |-> "delete", id |-> id, body |-> NoBody, file |-> 0,
            snap |-> IF backend = "file" THEN dataFile ELSE <<>>]}
    /\ issued' = issued + 1
    /\ UNCHANGED <<backend, coll, nextId, dataFile, assets, nextFile, faults, last>>

\* The failures a handler meets fit the budget.
Failing(flags) ==
    LET n == Cardinality({i \in DOMAIN flags : flags[i]})
    IN /\ faults + n <= MaxFaults
       /\ faults' = faults + n

(***************************************************************************)
(* Document-collection variant (src/server.js lines 128-233)               *)
(***************************************************************************)

\* app.get('/api/data'): Meal.find()
CollGetData(findFails) ==
    /\ backend = "collection"
    /\ issued < MaxRequests
    /\ Failing(<<findFails>>)
    /\ issued' = issued + 1
    /\ last' = Response("list", NoRequest, IF findFails THEN 500 ELSE 200,
                        coll, assets, IF findFails THEN <<>> ELSE coll, findFails)
    /\ UNCHANGED <<backend, coll, nextId, dataFile, assets, nextFile, pending>>

\* app.post('/api/meals'): new Meal(mealData).save()
CollPost(r, saveFails) ==
    /\ backend = "collection"
    /\ r \in pending /\ r.op = "create"
    /\ Failing(<<saveFails>>)
    /\ pending' = pending \ {r}
    /\ LET meal == WithPhoto(r.body, PostPhoto(r.file))
       IN IF saveFails
          THEN /\ last' = Response("create", r, 400, coll, assets, coll, TRUE)
               /\ UNCHANGED <<coll, nextId>>
          ELSE /\ coll' = (nextId :> meal) @@ coll
               /\ nextId' = nextId + 1
               /\ last' = Response("create", [r EXCEPT !.id = nextId], 200,
                                   coll, assets, coll, FALSE)
    /\ UNCHANGED <<backend, dataFile, assets, nextFile, issued>>

\* app.put('/api/meals/:id'): findById, unlink the old photo, set, save
CollPut(r, findFails, saveFails) ==
    /\ backend = "collection"
    /\ r \in pending /\ r.op = "update"
    /\ findFails => ~saveFails
    /\ Failing(<<findFails, saveFails>>)
    /\ pending' = pending \ {r}
    /\ IF findFails
       THEN /\ last' = Response("update", r, 400, coll, assets, <<>>, TRUE)
            /\ UNCHANGED <<coll, assets>>
       ELSE IF ~Found(r.id)
       THEN /\ last' = Response("update", r, 404, coll, assets, coll, FALSE)
            /\ UNCHANGED <<coll, assets>>
       ELSE LET meal == coll[r.id]
                updatedMealData ==
                    WithPhoto(r.body, PutPhoto(r.file, r.body, meal))
            IN /\ assets' = IF r.file # 0
                            THEN RemoveAsset(meal.photo, assets)
                            ELSE assets
               /\ IF saveFails
                  THEN /\ last' = Response("update", r, 400, coll, assets, coll, TRUE)
                       /\ UNCHANGED coll
                  ELSE /\ coll' = [coll EXCEPT ![r.id] = MealSet(meal, updatedMealData)]
                       /\ last' = Response("update", r, 200, coll, assets, coll, FALSE)
    /\ UNCHANGED <<backend, nextId, dataFile, nextFile, issued>>

\* app.delete('/api/meals/:id'): findById, unlink the photo, deleteOne
CollDelete(r, findFails, deleteFails) ==
    /\ backend = "collection"
    /\ r \in pending /\ r.op = "delete"
    /\ findFails => ~deleteFails
    /\ Failing(<<findFails, deleteFails>>)
    /\ pending' = pending \ {r}
    /\ IF findFails
       THEN /\ last' = Response("delete", r, 400, coll, assets, <<>>, TRUE)
            /\ UNCHANGED <<coll, assets>>
       ELSE IF ~Found(r.id)
       THEN /\ last' = Response("delete", r, 404, coll, assets, coll, FALSE)
            /\ UNCHANGED <<coll, assets>>
       ELSE LET meal == coll[r.id]
            IN /\ assets' = RemoveAsset(meal.photo, assets)
               /\ IF deleteFails
                  THEN /\ last' = Response("delete", r, 400, coll, assets, coll, TRUE)
                       /\ UNCHANGED coll
                  ELSE /\ coll' = Without(coll, r.id)
                       /\ last' = Response("delete", r, 200, coll, assets, coll, FALSE)
    /\ UNCHANGED <<backend, nextId, dataFile, nextFile, issued>>

(***************************************************************************)
(* Flat-file variant (src/server.js lines 384-489)                         *)
(***************************************************************************)

\* app.get('/api/data'): res.json(readData())
FileGetData(readFails, resetFails) ==
    /\ backend = "file"
    /\ issued < MaxRequests
    /\ resetFails => readFails
    /\ Failing(<<readFails, resetFails>>)
    /\ issued' = issued + 1
    /\ dataFile' = AfterRead(readFails, resetFails)
    /\ last' = Response("list", NoRequest, 200, dataFile, assets,
                        readData(readFails), readFails)
    /\ UNCHANGED <<backend, coll, nextId, assets, nextFile, pending>>

\* app.post('/api/meals'): readData, push, writeData
FilePost(r, readFails, resetFails, writeFails) ==
    /\ backend = "file"
    /\ r \in pending /\ r.op = "create"
    /\ resetFails => readFails
    /\ Failing(<<readFails, resetFails, writeFails>>)
    /\ pending' = pending \ {r}
    /\ LET data == readData(readFails)
           meal == WithPhoto(r.body, PostPhoto(r.file))
       IN IF writeFails
          THEN /\ dataFile' = AfterRead(readFails, resetFails)
               /\ last' = Response("create", r, 400, dataFile, assets, data, TRUE)
          ELSE /\ dataFile' = Append(data, meal)
               /\ last' = Response("create", [r EXCEPT !.id = Len(data)], 200,
                                   dataFile, assets, data, readFails)
    /\ UNCHANGED <<backend, coll, nextId, assets, nextFile, issued>>

\* app.put('/api/meals/:id'): readData, unlink the old photo, replace, writeData
FilePut(r, readFails, resetFails, writeFails) ==
    /\ backend = "file"
    /\ r \in pending /\ r.op = "update"
    /\ resetFails => readFails
    /\ Failing(<<readFails, resetFails, writeFails>>)
    /\ pending' = pending \ {r}
    /\ LET data == readData(readFails)
           mealIndex == r.id
       IN IF InRange(mealIndex, data)
          THEN LET existing == data[mealIndex + 1]
                   updatedMeal ==
                       WithPhoto(r.body, PutPhoto(r.file, r.body, existing))
               IN /\ assets' = IF r.file # 0
                               THEN RemoveAsset(existing.photo, assets)
                               ELSE assets
                  /\ IF writeFails
                     THEN /\ dataFile' = AfterRead(readFails, resetFails)
                          /\ last' = Response("update", r, 400, dataFile, assets,
                                              data, TRUE)
                     ELSE /\ dataFile' = [data EXCEPT ![mealIndex + 1] = updatedMeal]
                          /\ last' = Response("update", r, 200, dataFile, assets,
                                              data, readFails)
          ELSE /\ dataFile' = AfterRead(readFails, resetFails)
               /\ last' = Response("update", r, 404, dataFile, assets, data, readFails)
               /\ UNCHANGED assets
    /\ UNCHANGED <<backend, coll, nextId, nextFile, issued>>

\* app.delete('/api/meals/:id'): readData, unlink the photo, splice, writeData
FileDelete(r, readFails, resetFails, writeFails) ==
    /\ backend = "file"
    /\ r \in pending /\ r.op = "delete"
    /\ resetFails => readFails
    /\ Failing(<<readFails, resetFails, writeFails>>)
    /\ pending' = pending \ {r}
    /\ LET data == readData(readFails)
           mealIndex == r.id
       IN IF InRange(mealIndex, data)
          THEN LET deletedMeal == data[mealIndex + 1]
               IN /\ assets' = RemoveAsset(deletedMeal.photo, assets)
                  /\ IF writeFails
                     THEN /\ dataFile' = AfterRead(readFails, resetFails)
                          /\ last' = Response("delete", r, 400, dataFile, assets,
                                              data, TRUE)
                     ELSE /\ dataFile' = Splice(data, mealIndex)
                          /\ last' = Response("delete", r, 200, dataFile, assets,
                                              data, readFails)
          ELSE /\ dataFile' = AfterRead(readFails, resetFails)
               /\ last' = Response("delete", r, 404, dataFile, assets, data, readFails)
               /\ UNCHANGED assets
    /\ UNCHANGED <<backend, coll, nextId, nextFile, issued>>

(***************************************************************************)
(* Specification                                                           *)
(***************************************************************************)
Next ==
    \/ \E op \in UploadOps, id \in RequestIds, body \in Bodies, upload \in BOOLEAN :
          ReceiveUpload(op, id, body, upload)
    \/ \E id \in RequestIds : ReceiveDelete(id)
    \/ \E f \in BOOLEAN : CollGetData(f)
    \/ \E r \in pending, f \in BOOLEAN : CollPost(r, f)
    \/ \E r \in pending, f \in BOOLEAN, g \in BOOLEAN : CollPut(r, f, g)
    \/ \E r \in pending, f \in BOOLEAN, g \in BOOLEAN : CollDelete(r, f, g)
    \/ \E f \in BOOLEAN, g \in BOOLEAN : FileGetData(f, g)
    \/ \E r \in pending, f \in BOOLEAN, g \in BOOLEAN, h \in BOOLEAN :
          FilePost(r, f, g, h)
    \/ \E r \in pending, f \in BOOLEAN, g \in BOOLEAN, h \in BOOLEAN :
          FilePut(r, f, g, h)
    \/ \E r \in pending, f \in BOOLEAN, g \in BOOLEAN, h \in BOOLEAN :
          FileDelete(r, f, g, h)

Spec == Init /\ [][Next]_vars

(***************************************************************************)
(* What the properties below speak of                                      *)
(***************************************************************************)

\* The persisted meals of the running variant, by position or by id.
Stored == IF backend = "file" THEN dataFile ELSE coll

\* Where the meal a request names is found in the store: array position
\* mealIndex is element mealIndex + 1 of the sequence.
Key(id) == IF backend = "file" THEN id + 1 ELSE id

\* The id resolves to a record of `store`.
Resolves(id, store) == Key(id) \in DOMAIN store

Answered(op, status) == last.op = op /\ last.status = status

(***************************************************************************)
(* C1. Every persisted meal whose photo is non-empty references an asset   *)
(* that exists in the uploads directory, in every reachable state and      *)
(* under both variants, also after requests whose persistence step fails.  *)
(***************************************************************************)
C1_NoDanglingPhoto ==
    \A k \in DOMAIN Stored :
        Stored[k].photo # NoPhoto => PhotoFile(Stored[k].photo) \in assets

(***************************************************************************)
(* C2. A create whose fields lack a non-empty name or a non-empty          *)
(* description is answered with a validation error, persists no meal and   *)
(* leaves no new asset behind.                                             *)
(***************************************************************************)
C2_InvalidCreateRejected ==
    (last.op = "create" /\ ~validateMeal(last.body)) =>
        /\ last.status = 400
        /\ Stored = last.before
        /\ last.file # 0 => last.file \notin assets

(***************************************************************************)
(* C3. After a successful update with a new upload the asset the meal      *)
(* referenced before is gone, the meal's photo is the reference of the     *)
(* newly stored asset, and that asset exists.                              *)
(***************************************************************************)
C3_UpdateReplacesPhoto ==
    (Answered("update", 200) /\ last.file # 0) =>
        /\ PhotoFile(last.before[Key(last.id)].photo) \notin assets
        /\ Resolves(last.id, Stored)
        /\ Stored[Key(last.id)].photo = UploadRef(last.file)
        /\ PhotoFile(Stored[Key(last.id)].photo) \in assets

\* A successful update with an upload of a meal whose previous photo was in
\* the uploads directory.
C3_Witness ==
    /\ Answered("update", 200) /\ last.file # 0
    /\ last.before[Key(last.id)].photo # NoPhoto
    /\ PhotoFile(last.before[Key(last.id)].photo) \in last.assetsBefore

(***************************************************************************)
(* C4 as stated. After a successful delete the record is returned by no    *)
(* read: it is gone from the listing, a lookup by its id finds nothing,    *)
(* and the asset its photo referenced no longer exists.                    *)
(***************************************************************************)
C4_DeletedIdNotFound ==
    Answered("delete", 200) =>
        /\ ~Resolves(last.id, Stored)
        /\ PhotoFile(last.before[Key(last.id)].photo) \notin assets

(***************************************************************************)
(* C4 as amended. After a successful delete the record is gone from the    *)
(* listing, every other record is still listed, and the asset its photo    *)
(* referenced no longer exists.  In the collection its id finds nothing.   *)
(* In the flat file its id finds nothing only when it was the last meal    *)
(* of the array; otherwise the id now finds the meal that followed it.     *)
(***************************************************************************)
C4_DeleteRemovesRecord ==
    Answered("delete", 200) =>
        LET k == Key(last.id)
            before == last.before
        IN /\ PhotoFile(before[k].photo) \notin assets
           /\ backend = "collection" =>
                 /\ DOMAIN coll = DOMAIN before \ {k}
                 /\ \A i \in DOMAIN coll : coll[i] = before[i]
           /\ backend = "file" =>
                 /\ Len(dataFile) = Len(before) - 1
                 /\ \A j \in 1 .. Len(dataFile) :
                       dataFile[j] = IF j < k THEN before[j] ELSE before[j + 1]
                 /\ Resolves(last.id, dataFile) <=> k < Len(before)

\* A successful delete, in the flat file, of a meal with a stored photo that
\* was not the last of the array.
C4_Witness ==
    /\ Answered("delete", 200) /\ backend = "file"
    /\ Key(last.id) < Len(last.before)
    /\ PhotoFile(last.before[Key(last.id)].photo) \in last.assetsBefore

(***************************************************************************)
(* C5. A successful update without an upload leaves the meal's photo       *)
(* exactly as it was, whatever fields the request supplies (a photo field  *)
(* included), and removes no asset.                                        *)
(***************************************************************************)
C5_UpdateKeepsPhoto ==
    (Answered("update", 200) /\ last.file = 0) =>
        /\ Resolves(last.id, Stored)
        /\ Stored[Key(last.id)].photo = last.before[Key(last.id)].photo
        /\ last.assetsBefore \subseteq assets

\* A successful update without an upload whose fields carry a photo other
\* than the one the meal has.
C5_Witness ==
    /\ Answered("update", 200) /\ last.file = 0
    /\ "photo" \in DOMAIN last.body
    /\ last.before[Key(last.id)].photo # NoPhoto
    /\ last.body.photo # last.before[Key(last.id)].photo

(***************************************************************************)
(* C6. A successful update is partial in both variants: of the fields      *)
(* other than photo, a supplied one takes the supplied value and an        *)
(* unsupplied one keeps the value it had.                                  *)
(***************************************************************************)
C6_PartialUpdate ==
    Answered("update", 200) =>
        LET old == last.before[Key(last.id)]
            new == Stored[Key(last.id)]
        IN \A f \in OtherFields :
              IF f \in DOMAIN last.body
              THEN f \in DOMAIN new /\ new[f] = last.body[f]
              ELSE /\ f \in DOMAIN old <=> f \in DOMAIN new
                   /\ f \in DOMAIN old => new[f] = old[f]

(***************************************************************************)
(* C7. An update or delete whose id resolves to no record is answered 404  *)
(* and leaves the meals and the stored assets as they were before the      *)
(* request, also when the update carried an upload.  (Stated of requests   *)
(* whose store reads and writes all succeeded.)                            *)
(***************************************************************************)
C7_NotFoundChangesNothing ==
    (last.op \in {"update", "delete"} /\ ~last.ioFailed) =>
        /\ ~Resolves(last.id, last.before) => last.status = 404
        /\ last.status = 404 =>
              /\ Stored = last.before
              /\ last.file # 0 => last.file \notin assets
              /\ last.assetsBefore \ {last.file} \subseteq assets

(***************************************************************************)
(* C8. In the flat file, a request during which a read or a write of the   *)
(* data document failed is never answered with success.                    *)
(***************************************************************************)
C8_IoFailureReported ==
    (backend = "file" /\ last.ioFailed) => last.status # 200

\* The last response is a success of a flat-file handler that changed the
\* document, all of whose reads and writes succeeded.
FileWrote(ops) ==
    /\ backend = "file"
    /\ last.op \in ops /\ last.status = 200 /\ ~last.ioFailed

\* The write of another create came between the sending of the last request
\* and its handler: the two requests were in flight together.
Overlapped ==
    /\ Len(last.before) = Len(last.snap) + 1
    /\ \A j \in 1 .. Len(last.snap) : last.before[j] = last.snap[j]

====
